---- MODULE Spec2Model ----
(***************************************************************************)
(* Hybrid multi-stage retrieval (BM25 + vector + multi-query + RRF +       *)
(* rerank) of modules/rag_module, modelled as the state machine of one     *)
(* HybridRagAgent serving retrieve() calls (Spec, SpecLive).  SpecDirect   *)
(* applies single functions to arguments drawn from bounded sets:          *)
(* BM25Retriever.search_normalized, SemanticReranker.rerank and            *)
(* SOPPlanner.create_execution_plan.  SpecHistory is the HistoryVectorStore*)
(* with search_similar_cases running beside rebuild_index.                 *)
(*                                                                         *)
(* Strings are modelled as sequences of whitespace-separated words, the    *)
(* unit on which the code's split(), join(" | ") and set(...) operate.     *)
(* Floating-point scores are modelled as exact rationals: a score is an    *)
(* integer numerator over a fixed denominator (Scale, HybridDen, RRFDen).  *)
(***************************************************************************)
EXTENDS Integers, Sequences, FiniteSets, TLC

(* ------------------------------ bounds --------------------------------- *)

\* largest num_query_variants passed to retrieve()
MaxVariants == 1
\* largest number of lines in a response of the text-generation provider
MaxLines == 2
\* largest k_per_query passed to retrieve()
MaxK == 2
\* largest top_k_after_rrf / final_top_k passed to retrieve()
MaxTopK == 2
\* largest raw BM25 score the scoring library returns for a document
MaxRaw == 2
\* largest number of hits the vector backend returns for one search
MaxVecLen == 1
\* largest number of comma-separated fields in a response of the judge
MaxRespLen == 2
\* largest number of results of a BM25Retriever.search called on its own
MaxResults == 3
\* largest number of elements of the JSON list the planning model answers with
MaxSteps == 2
\* largest num_variants of an expand_from_report called on its own
MaxDirectVariants == 2
\* largest number of lines the provider answers to such a call
MaxDirectLines == 3
\* largest number of steps of an execution plan
MaxPlanLen == 2
\* largest number of plans started
MaxExecutions == 1
\* largest number of requests the execution service receives
MaxRequests == 4

(* --------------------------- generic helpers --------------------------- *)

Min(a, b) == IF a < b THEN a ELSE b

Max(a, b) == IF a > b THEN a ELSE b

\* s[:n] of Python for n >= 0
Take(s, n) == SubSeq(s, 1, Min(n, Len(s)))

Range(s) == {s[i] : i \in 1..Len(s)}

SeqsUpTo(S, n) == UNION {[1..m -> S] : m \in 0..n}

RECURSIVE Fact(_)
Fact(n) == IF n <= 1 THEN 1 ELSE n * Fact(n - 1)

RECURSIVE SumOver(_, _)
\* sum of f[x] over x in the domain subset S
SumOver(f, S) ==
    IF S = {} THEN 0
    ELSE LET x == CHOOSE y \in S : TRUE IN f[x] + SumOver(f, S \ {x})

\* list.sort(key=..., reverse=True): Python's sort is stable, also with
\* reverse=True, so elements with equal keys keep their order.  The elements
\* are pairs <<item, key>> with an integer key.
RECURSIVE InsertDesc(_, _)
InsertDesc(sorted, x) ==
    IF sorted = << >> THEN <<x>>
    ELSE IF x[2] > Head(sorted)[2]
         THEN <<x>> \o sorted
         ELSE <<Head(sorted)>> \o InsertDesc(Tail(sorted), x)

RECURSIVE SortDesc(_)
SortDesc(s) ==
    IF s = << >> THEN << >>
    ELSE InsertDesc(SortDesc(SubSeq(s, 1, Len(s) - 1)), s[Len(s)])

(* ------------------------------- words --------------------------------- *)

\* str.lower() on one word
Lower(w) ==
    CASE w = "Error"        -> "error"
      [] w = "Module:"      -> "module:"
      [] w = "Entities:"    -> "entities:"
      [] w = "VESSEL_ERR_4" -> "vessel_err_4"
      [] w = "Vessel"       -> "vessel"
      [] w = "Duplicate"    -> "duplicate"
      [] w = "MV1"          -> "mv1"
      [] OTHER              -> w

\* str.lower() on a string
LowerStr(s) == [i \in 1..Len(s) |-> Lower(s[i])]

\* set(s.lower().split()) once s is lower-cased
Tokens(s) == Range(s)

RECURSIVE JoinParts(_)
\* " | ".join(parts)
JoinParts(parts) ==
    IF parts = << >> THEN << >>
    ELSE IF Len(parts) = 1 THEN parts[1]
    ELSE parts[1] \o <<"|">> \o JoinParts(Tail(parts))

(* --------------------------- incident reports --------------------------- *)

\* f"{entity.type}: ..." : the word that carries the type
TypeColon(t) ==
    CASE t = "vessel_name" -> "vessel_name:"
      [] t = "date"        -> "date:"
      [] OTHER             -> t

\* the word v followed by the ", " of ", ".join(...)
WithComma(v) ==
    CASE v = "MV1"   -> "MV1,"
      [] v = "today" -> "today,"
      [] OTHER       -> v

\* IncidentReport values handed to retrieve(); "" stands for None / empty
Reports ==
    { [error_code |-> "", problem_summary |-> <<"duplicate", "vessel", "name">>,
       affected_module |-> "", entities |-> << >>],
      [error_code |-> "VESSEL_ERR_4",
       problem_summary |-> <<"container", "gate", "timeout">>,
       affected_module |-> "Vessel",
       entities |-> <<[type |-> "vessel_name", value |-> "MV1"]>>] }

\* entity types that _build_search_query keeps
KeptEntityTypes == {"container_number", "vessel_name", "error_code", "message_type"}

\* report.entities[:5]
EntitySlice == 5

RECURSIVE EntityParts(_)
\* one query part per kept entity, in order
EntityParts(entities) ==
    IF entities = << >> THEN << >>
    ELSE (IF Head(entities).type \in KeptEntityTypes
          THEN << <<TypeColon(Head(entities).type), Head(entities).value>> >>
          ELSE << >>) \o EntityParts(Tail(entities))

\* HybridRagAgent._build_search_query
build_search_query(report) ==
    JoinParts(
        (IF report.error_code # ""
         THEN << <<"Error", "code:", report.error_code>> >> ELSE << >>)
        \o << report.problem_summary >>
        \o (IF report.affected_module # ""
            THEN << <<"Module:", report.affected_module>> >> ELSE << >>)
        \o EntityParts(Take(report.entities, EntitySlice)))

RECURSIVE EntityStrings(_)
\* entity_strings of expand_from_report, already joined with ", "
EntityStrings(entities) ==
    IF entities = << >> THEN << >>
    ELSE LET e == Head(entities)
             rest == EntityStrings(Tail(entities))
         IN IF e.type # "" /\ e.value # ""
            THEN IF rest = << >>
                 THEN <<TypeColon(e.type), e.value>>
                 ELSE <<TypeColon(e.type), WithComma(e.value)>> \o rest
            ELSE rest

\* original_query of QueryExpander.expand_from_report
expander_original_query(report) ==
    LET entity_strings == EntityStrings(report.entities)
        query_parts ==
            (IF report.error_code # ""
             THEN << <<"Error", "code:", report.error_code>> >> ELSE << >>)
            \o (IF report.problem_summary # << >>
                THEN << report.problem_summary >> ELSE << >>)
            \o (IF report.affected_module # ""
                THEN << <<"Module:", report.affected_module>> >> ELSE << >>)
            \o (IF entity_strings # << >>
                THEN << <<"Entities:">> \o entity_strings >> ELSE << >>)
        joined == JoinParts(query_parts)
    IN IF joined # << >> THEN joined
       ELSE IF report.problem_summary # << >> THEN report.problem_summary
       ELSE <<"Technical", "incident", "report">>

(* ---------------------------- query expansion --------------------------- *)

\* lines the text-generation provider may answer with: a blank line, a
\* paraphrase, the original in lower case
ResponseLines(report) ==
    { << >>,
      <<"vessel", "name", "conflict">>,
      LowerStr(expander_original_query(report)) }

\* outcomes of self.llm.invoke(messages): an exception (error or timeout of
\* the client), a response whose content is not text, a text of lines, or no
\* return at all ("hang": the provider never answers; the call is made
\* without a timeout of its own)
LlmOutcomes(report) ==
    { [kind |-> "raise", lines |-> << >>], [kind |-> "nontext", lines |-> << >>],
      [kind |-> "hang", lines |-> << >>] }
    \cup { [kind |-> "text", lines |-> l] : l \in SeqsUpTo(ResponseLines(report), MaxLines) }

\* [line.strip() for line in content.splitlines() if line.strip()]
RECURSIVE NonBlank(_)
NonBlank(lines) ==
    IF lines = << >> THEN << >>
    ELSE (IF Head(lines) # << >> THEN <<Head(lines)>> ELSE << >>) \o NonBlank(Tail(lines))

RECURSIVE UniqueVariants(_, _, _, _)
\* the loop of expand_from_report over generated_queries: the length test
\* comes after the append
UniqueVariants(generated, acc, original_query, num_variants) ==
    IF generated = << >> THEN acc
    ELSE LET variant == Head(generated)
             acc2 == IF variant \notin Range(acc)
                        /\ LowerStr(variant) # LowerStr(original_query)
                     THEN Append(acc, variant) ELSE acc
         IN IF Len(acc2) >= num_variants THEN acc2
            ELSE UniqueVariants(Tail(generated), acc2, original_query, num_variants)

\* QueryExpander.expand_from_report; status "raise" is an exception leaving
\* it, status "hang" a call that does not return
expand_from_report(report, num_variants, llm) ==
    LET original_query == expander_original_query(report)
    IN IF num_variants < 0 \/ llm.kind \in {"raise", "nontext"}
       THEN [status |-> "raise", queries |-> << >>]
       ELSE IF llm.kind = "hang"
       THEN [status |-> "hang", queries |-> << >>]
       ELSE [status |-> "ok",
             queries |-> <<original_query>>
                 \o UniqueVariants(NonBlank(llm.lines), << >>, original_query, num_variants)]

(* ------------------------------ documents ------------------------------- *)

\* SOP dicts.  A2 is another version of A (same Title, other Overview), as the
\* vector store keeps its own copy of each SOP in full_sop_json; U has no
\* Title; NJ is a vector hit whose metadata has no parseable full_sop_json.
TitleOf(sop) ==
    CASE sop \in {"A", "A2"} -> <<"Vessel", "duplicate", "name", "error">>
      [] sop = "B"           -> <<"container", "gate", "timeout">>
      [] OTHER               -> << >>

OverviewOf(sop) ==
    CASE sop = "A"  -> <<"Duplicate", "name">>
      [] sop = "A2" -> <<"stale", "copy">>
      [] sop = "B"  -> <<"gate", "timeout">>
      [] OTHER      -> <<"untitled">>

\* self.sops of BM25Retriever, in file order
Sops == <<"A", "B">>

\* header chunks the vector backend can return
VectorDocs == {"A2", "U", "NJ"}

\* doc.metadata.get('full_sop_json') is present and json.loads accepts it
HasSopJson(doc) == doc # "NJ"

(* ------------------------------- scores --------------------------------- *)

\* denominator of lexical and vector scores: a score x stands for x / Scale
Scale == Fact(MaxRaw)

\* bm25_weight = 0.4 and vector_weight = 0.6, in tenths
Bm25WeightTenths == 4

VectorWeightTenths == 6

\* denominator of hybrid scores: a hybrid score x stands for x / HybridDen
HybridDen == 10 * Scale

(* ---------------------------- lexical index ----------------------------- *)

\* self.bm25.get_scores(tokenized_query): one raw score per SOP, computed by
\* the rank_bm25 library
RawScoreArrays == [1..Len(Sops) -> 0..MaxRaw]

\* np.argsort(scores)[::-1][:k]: the k best indices by decreasing score; the
\* order among equal scores is left to the sort, so every order is possible
TopKIndices(scores, k) ==
    LET n == Min(k, Len(Sops))
    IN { idx \in [1..n -> 1..Len(Sops)] :
            /\ \A i, j \in 1..n : i # j => idx[i] # idx[j]
            /\ \A i \in 1..n : i < n => scores[idx[i]] >= scores[idx[i + 1]]
            /\ \A d \in 1..Len(Sops) :
                 d \notin Range(idx) => \A i \in 1..n : scores[d] <= scores[idx[i]] }

\* variant of search that leaves out the SOPs whose raw score is 0
search_drops_unmatched(scores, top_k_indices) ==
    LET matched == SelectSeq(top_k_indices, LAMBDA d : scores[d] > 0)
    IN [i \in 1..Len(matched) |-> [sop |-> Sops[matched[i]], score |-> scores[matched[i]]]]

\* BM25Retriever.search, for one choice of the top-k indices
search(scores, top_k_indices) ==
    [i \in 1..Len(top_k_indices) |->
        [sop |-> Sops[top_k_indices[i]], score |-> scores[top_k_indices[i]]]]

RECURSIVE MinScore(_)
MinScore(results) ==
    IF Len(results) = 1 THEN results[1].score
    ELSE Min(results[1].score, MinScore(Tail(results)))

RECURSIVE MaxScore(_)
MaxScore(results) ==
    IF Len(results) = 1 THEN results[1].score
    ELSE Max(results[1].score, MaxScore(Tail(results)))

\* variant of normalize_scores whose equal-scores branch yields 0.0, the value
\* of (score - min_score) there
normalize_scores_zero_when_equal(results) ==
    IF results = << >> THEN << >>
    ELSE LET min_score == MinScore(results)
             max_score == MaxScore(results)
         IN IF max_score = min_score
            THEN [i \in 1..Len(results) |-> [sop |-> results[i].sop, score |-> 0]]
            ELSE [i \in 1..Len(results) |->
                    [sop |-> results[i].sop,
                     score |-> ((results[i].score - min_score) * Scale)
                                   \div (max_score - min_score)]]

\* BM25Retriever.normalize_scores
normalize_scores(results) ==
    IF results = << >> THEN << >>
    ELSE LET min_score == MinScore(results)
             max_score == MaxScore(results)
         IN IF max_score = min_score
            THEN [i \in 1..Len(results) |-> [sop |-> results[i].sop, score |-> Scale]]
            ELSE [i \in 1..Len(results) |->
                    [sop |-> results[i].sop,
                     score |-> ((results[i].score - min_score) * Scale)
                                   \div (max_score - min_score)]]

\* BM25Retriever.search_normalized: the possible results for one query
search_normalized(k) ==
    UNION { { normalize_scores(search(scores, idx)) : idx \in TopKIndices(scores, k) } :
            scores \in RawScoreArrays }

(* ----------------------------- vector index ----------------------------- *)

\* search_k of search_with_scores: the number of hits asked of the backend
SearchK == 5

\* distances the backend may report: identical (0) or orthogonal (1)
Distances == {0, Scale}

\* outcomes of vector_store.similarity_search_with_score: an exception, at
\* most search_k hits (document, distance), or no return at all ("hang")
BackendOutcomes ==
    { [kind |-> "raise", hits |-> << >>], [kind |-> "hang", hits |-> << >>] }
    \cup { [kind |-> "ok", hits |-> h] :
             h \in SeqsUpTo([doc : VectorDocs, distance : Distances], Min(MaxVecLen, SearchK)) }

\* VectorStoreInterface.search_with_scores; status "raise" is an exception,
\* status "hang" a call that does not return
search_with_scores(query, k, backend) ==
    IF query = << >> \/ backend.kind = "raise"
    THEN [status |-> "raise", docs |-> << >>]
    ELSE IF backend.kind = "hang"
    THEN [status |-> "hang", docs |-> << >>]
    ELSE [status |-> "ok",
          docs |-> Take([i \in 1..Len(backend.hits) |->
                            [doc |-> backend.hits[i].doc,
                             score |-> Scale - backend.hits[i].distance]], k)]

(* ----------------------------- hybrid scorer ---------------------------- *)

RECURSIVE VectorResults(_)
\* the loop over docs_and_scores: hits without a usable full_sop_json are skipped
VectorResults(docs_and_scores) ==
    IF docs_and_scores = << >> THEN << >>
    ELSE (IF HasSopJson(Head(docs_and_scores).doc)
          THEN <<[sop |-> Head(docs_and_scores).doc, score |-> Head(docs_and_scores).score]>>
          ELSE << >>) \o VectorResults(Tail(docs_and_scores))

\* position of the entry of results_dict whose key is sop_id, 0 if none
KeyIndex(results_dict, sop_id) ==
    IF \E i \in 1..Len(results_dict) : results_dict[i].sop_id = sop_id
    THEN CHOOSE i \in 1..Len(results_dict) : results_dict[i].sop_id = sop_id
    ELSE 0

RECURSIVE MergeBm25(_, _)
\* first merge loop: results_dict[sop_id] = (sop, bm25_score, 0.0).  A dict
\* keeps the position of a key that is assigned again.
MergeBm25(results_dict, bm25_results) ==
    IF bm25_results = << >> THEN results_dict
    ELSE LET sop == Head(bm25_results).sop
             sop_id == TitleOf(sop)
             entry == [sop_id |-> sop_id, sop |-> sop,
                       bm25_score |-> Head(bm25_results).score, vector_score |-> 0]
             i == KeyIndex(results_dict, sop_id)
         IN MergeBm25(IF sop_id = << >> THEN results_dict
                      ELSE IF i = 0 THEN Append(results_dict, entry)
                      ELSE [results_dict EXCEPT ![i] = entry],
                      Tail(bm25_results))

RECURSIVE MergeVector_resets_bm25(_, _)
\* variant of MergeVector that writes (sop, 0.0, vector_score) over an
\* existing entry
MergeVector_resets_bm25(results_dict, vector_results) ==
    IF vector_results = << >> THEN results_dict
    ELSE LET sop == Head(vector_results).sop
             sop_id == TitleOf(sop)
             i == KeyIndex(results_dict, sop_id)
             entry == [sop_id |-> sop_id, sop |-> sop, bm25_score |-> 0,
                       vector_score |-> Head(vector_results).score]
         IN MergeVector_resets_bm25(IF sop_id = << >> THEN results_dict
                                    ELSE IF i # 0 THEN [results_dict EXCEPT ![i] = entry]
                                    ELSE Append(results_dict, entry),
                                    Tail(vector_results))

RECURSIVE MergeVector(_, _)
\* second merge loop: the vector score joins an existing entry, or a new
\* entry gets bm25_score 0.0
MergeVector(results_dict, vector_results) ==
    IF vector_results = << >> THEN results_dict
    ELSE LET sop == Head(vector_results).sop
             sop_id == TitleOf(sop)
             i == KeyIndex(results_dict, sop_id)
         IN MergeVector(IF sop_id = << >> THEN results_dict
                        ELSE IF i # 0
                        THEN [results_dict EXCEPT ![i].vector_score = Head(vector_results).score]
                        ELSE Append(results_dict,
                                    [sop_id |-> sop_id, sop |-> sop, bm25_score |-> 0,
                                     vector_score |-> Head(vector_results).score]),
                        Tail(vector_results))

\* variant of HybridScore with the two weights exchanged
HybridScore_swapped(bm25_score, vector_score) ==
    VectorWeightTenths * bm25_score + Bm25WeightTenths * vector_score

\* hybrid_score = bm25_weight * bm25_score + vector_weight * vector_score
HybridScore(bm25_score, vector_score) ==
    Bm25WeightTenths * bm25_score + VectorWeightTenths * vector_score

\* the tuple (sop, hybrid_score, source, bm25_score, vector_score) of one entry
HybridEntry(e) ==
    [sop |-> e.sop,
     hybrid_score |-> HybridScore(e.bm25_score, e.vector_score),
     source |-> IF e.bm25_score > 0 /\ e.vector_score > 0 THEN "both"
                ELSE IF e.bm25_score > 0 THEN "bm25" ELSE "vector",
     bm25_score |-> e.bm25_score,
     vector_score |-> e.vector_score]

\* merge and scoring part of _hybrid_search_single_query (lines 186-224)
HybridMerge(bm25_results, vector_results) ==
    LET results_dict == MergeVector(MergeBm25(<< >>, bm25_results), vector_results)
        hybrid_results == [i \in 1..Len(results_dict) |-> HybridEntry(results_dict[i])]
        sorted == SortDesc([i \in 1..Len(hybrid_results) |->
                               <<hybrid_results[i], hybrid_results[i].hybrid_score>>])
    IN [i \in 1..Len(sorted) |-> sorted[i][1]]

\* variant of hybrid_search_single_query without the try/except around the
\* vector search
hybrid_search_single_query_uncaught(query, k, bm25, backend) ==
    LET bm25_results == IF bm25.kind = "ok" THEN bm25.results ELSE << >>
        vec == search_with_scores(query, k, backend)
        vector_results == IF vec.status = "ok" THEN VectorResults(vec.docs) ELSE << >>
    IN [status |-> vec.status,
        bm25_results |-> bm25_results,
        vector_results |-> vector_results,
        results |-> HybridMerge(bm25_results, vector_results)]

\* HybridRagAgent._hybrid_search_single_query: bm25 is the outcome of
\* search_normalized ("none": no retriever, "raise", or "ok" with results),
\* backend the outcome of the vector backend.  Both searches run inside
\* try/except, so a failing index leaves its list empty and the status is
\* never "raise" (an exception leaving the method); a vector search that does
\* not return keeps the method from returning.
hybrid_search_single_query(query, k, bm25, backend) ==
    LET bm25_results == IF bm25.kind = "ok" THEN bm25.results ELSE << >>
        vec == search_with_scores(query, k, backend)
        vector_results == IF vec.status = "ok" THEN VectorResults(vec.docs) ELSE << >>
    IN [status |-> IF vec.status = "hang" THEN "hang" ELSE "ok",
        bm25_results |-> bm25_results,
        vector_results |-> vector_results,
        results |-> HybridMerge(bm25_results, vector_results)]


(* ------------------------- reciprocal rank fusion ----------------------- *)

\* rrf_k of HybridRagAgent
RrfK == 60

\* longest per-query hybrid list: at most k lexical and min(k, hits) vector
MaxListLen == MaxK + Min(MaxK, MaxVecLen)

\* k_per_query of a retrieve() call that leaves it to its default
DefaultKPerQuery == 10

\* longest hybrid list of such a call: k lexical and k vector hits
MaxRankingLen == 2 * DefaultKPerQuery

RECURSIVE Gcd(_, _)
Gcd(a, b) == IF b = 0 THEN a ELSE Gcd(b, a % b)

RECURSIVE LcmOfSet(_)
LcmOfSet(S) ==
    IF S = {} THEN 1
    ELSE LET x == CHOOSE y \in S : TRUE
             r == LcmOfSet(S \ {x})
         IN (x * r) \div Gcd(x, r)

\* denominator of fusion scores: a fusion score x stands for x / RRFDen, and
\* every 1 / (k + rank + 1) of a possible rank is a whole multiple of
\* 1 / RRFDen: the ranks of the lists the searches build, and the last rank
\* of a list of MaxRankingLen entries
RRFDen == LcmOfSet({RrfK + r : r \in 1..MaxListLen} \cup {RrfK + MaxRankingLen})

\* variant of RankContribution that takes the rank as 1-based already
RankContribution_one_based(k, rank) == RRFDen \div (k + rank)

\* 1.0 / (k + rank + 1)
RankContribution(k, rank) == RRFDen \div (k + rank + 1)

RECURSIVE FuseOneList_overwrites(_, _, _, _)
\* variant of FuseOneList that assigns the contribution of the latest list
\* instead of adding it
FuseOneList_overwrites(acc, query_results, rank, k) ==
    IF query_results = << >> THEN acc
    ELSE LET sop == Head(query_results).sop
             sop_id == TitleOf(sop)
             i == KeyIndex(acc, sop_id)
         IN FuseOneList_overwrites(IF sop_id = << >> THEN acc
                                   ELSE IF i # 0
                                   THEN [acc EXCEPT ![i].rrf_score = RankContribution(k, rank)]
                                   ELSE Append(acc, [sop_id |-> sop_id, sop |-> sop,
                                                     rrf_score |-> RankContribution(k, rank)]),
                                   Tail(query_results), rank + 1, k)

RECURSIVE FuseOneList(_, _, _, _)
\* inner loop of _reciprocal_rank_fusion over enumerate(query_results); acc is
\* rrf_scores together with sop_dict, in insertion order of the keys
FuseOneList(acc, query_results, rank, k) ==
    IF query_results = << >> THEN acc
    ELSE LET sop == Head(query_results).sop
             sop_id == TitleOf(sop)
             i == KeyIndex(acc, sop_id)
         IN FuseOneList(IF sop_id = << >> THEN acc
                        ELSE IF i # 0
                        THEN [acc EXCEPT ![i].rrf_score = @ + RankContribution(k, rank)]
                        ELSE Append(acc, [sop_id |-> sop_id, sop |-> sop,
                                          rrf_score |-> RankContribution(k, rank)]),
                        Tail(query_results), rank + 1, k)

RECURSIVE FuseLists(_, _, _)
\* outer loop of _reciprocal_rank_fusion over multi_query_results.  The
\* dictionary after one list is complete before the next list is read, and a
\* key once inserted is never removed.
FuseLists(acc, multi_query_results, k) ==
    IF multi_query_results = << >> THEN acc
    ELSE LET fused == FuseOneList(acc, Head(multi_query_results), 0, k)
         IN CASE Len(fused) >= Len(acc) ->
                FuseLists(fused, Tail(multi_query_results), k)

\* HybridRagAgent._reciprocal_rank_fusion: [(sop, rrf_score)] by decreasing score
reciprocal_rank_fusion(multi_query_results, k) ==
    LET rrf_scores == FuseLists(<< >>, multi_query_results, k)
        sorted == SortDesc([i \in 1..Len(rrf_scores) |->
                               <<[sop |-> rrf_scores[i].sop, score |-> rrf_scores[i].rrf_score],
                                 rrf_scores[i].rrf_score>>])
    IN [i \in 1..Len(sorted) |-> sorted[i][1]]

(* ------------------------------- rerankers ------------------------------ *)

\* fields of the judge's comma-separated answer: a number, or -1 for a field
\* that is not made of digits; MaxTopK is an index no candidate list reaches
JudgeFields == -1..MaxTopK

\* outcomes of self.chain.invoke: an exception (error or timeout of the
\* client), a text, or no return at all ("hang")
JudgeOutcomes ==
    { [kind |-> "raise", fields |-> << >>], [kind |-> "hang", fields |-> << >>] }
    \cup { [kind |-> "text", fields |-> f] : f \in SeqsUpTo(JudgeFields, MaxRespLen) }

RECURSIVE Filter(_, _)
\* [i for i in ranked_indices if 0 <= i < n], after the isdigit() filter
Filter(fields, n) ==
    IF fields = << >> THEN << >>
    ELSE (IF 0 <= Head(fields) /\ Head(fields) < n THEN <<Head(fields)>> ELSE << >>)
         \o Filter(Tail(fields), n)

RECURSIVE MissingIndices(_, _, _)
\* [i for i in range(n) if i not in ranked_indices]
MissingIndices(i, n, ranked_indices) ==
    IF i >= n THEN << >>
    ELSE (IF i \notin Range(ranked_indices) THEN <<i>> ELSE << >>)
         \o MissingIndices(i + 1, n, ranked_indices)

\* rerank score 1.0 / (rank + 1), kept as its denominator rank + 1
RerankScored(sops) ==
    [i \in 1..Len(sops) |-> [sop |-> sops[i], score_num |-> 1, score_den |-> i]]

\* results[:top_k] under "if top_k:" -- 0 and None both mean no truncation
TruncateIfTopK(results, top_k) == IF top_k # 0 THEN Take(results, top_k) ELSE results

\* denominator of len(a | b) in the Jaccard overlap: max(len(a | b), 1)
UnionSize(a, b) == Max(Cardinality(a \cup b), 1)

\* SimpleReranker.rerank: score = 0.7 * Jaccard(query, title)
\*                              + 0.3 * Jaccard(query, overview)
SimpleRerank(query, candidates, top_k) ==
    LET query_tokens == Tokens(LowerStr(query))
        title_tokens(sop) == Tokens(LowerStr(TitleOf(sop)))
        overview_tokens(sop) == Tokens(LowerStr(OverviewOf(sop)))
        den == LcmOfSet({UnionSize(query_tokens, title_tokens(sop)) : sop \in Range(candidates)}
                        \cup {UnionSize(query_tokens, overview_tokens(sop)) : sop \in Range(candidates)})
        \* the score as a numerator over 10 * den
        score(sop) ==
            7 * Cardinality(query_tokens \cap title_tokens(sop))
              * (den \div UnionSize(query_tokens, title_tokens(sop)))
            + 3 * Cardinality(query_tokens \cap overview_tokens(sop))
                * (den \div UnionSize(query_tokens, overview_tokens(sop)))
        sorted == SortDesc([i \in 1..Len(candidates) |-> <<candidates[i], score(candidates[i])>>])
        scored_candidates == [i \in 1..Len(sorted) |->
                                 [sop |-> sorted[i][1], score_num |-> sorted[i][2], score_den |-> 10 * den]]
    IN TruncateIfTopK(scored_candidates, top_k)

\* variant of SemanticRerank whose failure paths (exception, no valid index)
\* order the candidates by lexical overlap
SemanticRerank_overlap_fallback(query, candidates, top_k, judge) ==
    IF candidates = << >> THEN << >>
    ELSE IF judge.kind = "raise" \/ Filter(judge.fields, Len(candidates)) = << >>
    THEN SimpleRerank(query, candidates, top_k)
    ELSE LET n == Len(candidates)
             ranked_indices == Filter(judge.fields, n)
             all_indices == ranked_indices \o MissingIndices(0, n, ranked_indices)
             results == RerankScored([r \in 1..Len(all_indices) |-> candidates[all_indices[r] + 1]])
         IN TruncateIfTopK(results, top_k)

\* SemanticReranker.rerank
SemanticRerank(query, candidates, top_k, judge) ==
    IF candidates = << >> THEN << >>
    ELSE IF judge.kind = "raise"
    THEN RerankScored(TruncateIfTopK(candidates, top_k))
    ELSE LET n == Len(candidates)
             valid == Filter(judge.fields, n)
             ranked_indices == IF valid = << >> THEN [i \in 1..n |-> i - 1] ELSE valid
             all_indices == ranked_indices \o MissingIndices(0, n, ranked_indices)
             results == RerankScored([r \in 1..Len(all_indices) |-> candidates[all_indices[r] + 1]])
         IN TruncateIfTopK(results, top_k)

(* --------------------------- retrieve() pipeline ------------------------ *)

VARIABLES
    pc,                     \* position of the retrieve() call in progress
    agent,                  \* the HybridRagAgent: its reranker and bm25_retriever
    report,                 \* arguments of the call
    num_query_variants,
    k_per_query,
    top_k_after_rrf,
    final_top_k,
    original_query,         \* locals of retrieve()
    expanded_queries,
    bm25_results,           \* locals of the latest _hybrid_search_single_query
    vector_results,
    all_query_results,
    total_bm25_candidates,
    total_vector_candidates,
    rrf_results,
    rrf_top_k,
    reranked_results,
    final_sops,
    retrieval_summary,
    metrics,
    outcome,                \* "none", "returned" or "raised"
    llm,                    \* how the text-generation provider answered
    searches,               \* how the two indexes answered so far
    judge,                  \* how the relevance judge answered
    direct_call,            \* a function called on its own: its name and arguments
    direct_result,          \* what that call produced
    collections,            \* HistoryVectorStore: the client's collections, by identity
    collection,             \* self.collection: the identity it refers to
    rebuild_pc,             \* position of rebuild_index
    cases,                  \* local of rebuild_index: the loaded cases
    reads,                  \* the search_similar_cases calls, by reader
    exec_states,            \* the ExecutionState objects, by identity
    state_cache,            \* _global_state_cache: token -> identity of a state
    tool_log,               \* calls of execute_sql_write_query, oldest first
    exec_call,              \* the latest request to the execution service
    exec_result,            \* its ExecutionStepResult
    approval_tokens,        \* tokens returned with status needs_approval
    resumed                 \* tokens resume_plan_execution found in the cache

vars == <<pc, agent, report, num_query_variants, k_per_query, top_k_after_rrf,
          final_top_k, original_query, expanded_queries, bm25_results, vector_results,
          all_query_results,
          total_bm25_candidates, total_vector_candidates, rrf_results, rrf_top_k,
          reranked_results, final_sops, retrieval_summary, metrics, outcome,
          llm, searches, judge, direct_call, direct_result,
          collections, collection, rebuild_pc, cases, reads,
          exec_states, state_cache, tool_log, exec_call, exec_result,
          approval_tokens, resumed>>

\* the state retrieve() works on
retrieve_vars == <<pc, agent, report, num_query_variants, k_per_query, top_k_after_rrf,
                   final_top_k, original_query, expanded_queries, bm25_results,
                   vector_results, all_query_results, total_bm25_candidates,
                   total_vector_candidates, rrf_results, rrf_top_k, reranked_results,
                   final_sops, retrieval_summary, metrics, outcome, llm, searches, judge>>

\* the state retrieve() does not touch
other_vars == <<direct_call, direct_result, collections, collection, rebuild_pc, cases, reads,
                exec_states, state_cache, tool_log, exec_call, exec_result,
                approval_tokens, resumed>>

\* the state of the SOP execution service
execution_vars == <<exec_states, state_cache, tool_log, exec_call, exec_result,
                    approval_tokens, resumed>>

NoCall == [fn |-> "none"]

NoResult == [status |-> "none"]

\* historical cases of the collection before and after a rebuild: the
\* corpus grows from 3 to 5 cases
OldCases == <<"h1", "h2", "h3">>

NewCases == <<"h1", "h2", "h3", "h4", "h5">>

\* threads that call search_similar_cases
Readers == {1, 2}

NoRead == [pc |-> "idle", ref |-> 0, top_k |-> 0, started |-> "none", result |-> NoResult]

\* a HistoryVectorStore over a collection of OldCases, nobody calling it
HistoryIdle ==
    /\ collections = <<OldCases>>
    /\ collection = 1
    /\ rebuild_pc = "idle"
    /\ cases = << >>
    /\ reads = [r \in Readers |-> NoRead]

\* a state_token that is not set
NoToken == << >>

NoExecCall == [fn |-> "none", state_token |-> NoToken, n |-> 0, ref |-> 0]

\* an execution service that received no request: the cache is empty
ExecutionIdle ==
    /\ exec_states = << >>
    /\ state_cache = << >>
    /\ tool_log = << >>
    /\ exec_call = NoExecCall
    /\ exec_result = NoResult
    /\ approval_tokens = {}
    /\ resumed = {}

NoReport == [error_code |-> "", problem_summary |-> << >>,
             affected_module |-> "", entities |-> << >>]

NoOutcome == [kind |-> "none"]

\* no search has run: no index failed, no vector search succeeded
NoSearches == [bm25_failed |-> FALSE, vector_failed |-> FALSE, vector_ok |-> FALSE]

\* how the provider answered: "raise", "nontext", "blank" for a text without
\* any non-blank line, "text" otherwise
LlmKind(l) ==
    IF l.kind = "text" /\ NonBlank(l.lines) = << >> THEN "blank" ELSE l.kind

\* how the judge answered over n candidates: "raise", "empty" for a text
\* without any valid index, "valid" otherwise
JudgeKind(j, n) ==
    IF j.kind = "text"
    THEN IF \E i \in 1..Len(j.fields) : 0 <= j.fields[i] /\ j.fields[i] < n
         THEN "valid" ELSE "empty"
    ELSE j.kind

\* agents the constructor can build: reranker is a SemanticReranker, a
\* SimpleReranker or an injected reranker whose rerank() raises;
\* bm25_retriever is None when BM25Retriever() failed
Agents ==
    { [reranker |-> "semantic", bm25_retriever |-> TRUE],
      [reranker |-> "simple",   bm25_retriever |-> TRUE],
      [reranker |-> "raising",  bm25_retriever |-> TRUE],
      [reranker |-> "semantic", bm25_retriever |-> FALSE] }

Locals ==
    /\ report = NoReport
    /\ num_query_variants = 0
    /\ k_per_query = 0
    /\ top_k_after_rrf = 0
    /\ final_top_k = 0
    /\ original_query = << >>
    /\ expanded_queries = << >>
    /\ bm25_results = << >>
    /\ vector_results = << >>
    /\ all_query_results = << >>
    /\ total_bm25_candidates = 0
    /\ total_vector_candidates = 0
    /\ rrf_results = << >>
    /\ rrf_top_k = << >>
    /\ reranked_results = << >>
    /\ final_sops = << >>
    /\ retrieval_summary = << >>
    /\ metrics = << >>
    /\ outcome = "none"
    /\ llm = "none"
    /\ searches = NoSearches
    /\ judge = "none"

Init ==
    /\ pc = "idle"
    /\ agent \in Agents
    /\ Locals
    /\ direct_call = NoCall
    /\ direct_result = NoResult
    /\ HistoryIdle
    /\ ExecutionIdle

\* retrieve() is called: line 290.  An argument of the call is drawn when the
\* call first reads it: num_query_variants in Expand, k_per_query in Search,
\* top_k_after_rrf in Fuse and final_top_k in Rerank.
Call(r) ==
    /\ pc = "idle"
    /\ UNCHANGED other_vars
    /\ pc' = "expand"
    /\ report' = r
    /\ original_query' = build_search_query(r)
    /\ UNCHANGED <<agent, num_query_variants, k_per_query, top_k_after_rrf, final_top_k,
                   expanded_queries, bm25_results, vector_results, all_query_results, total_bm25_candidates,
                   total_vector_candidates, rrf_results, rrf_top_k, reranked_results,
                   final_sops, retrieval_summary, metrics, outcome, llm, searches, judge>>

\* Step 1, lines 292-299: an exception of the expander leaves [original_query]
ExpandStep(expansion) ==
    IF expansion.status = "ok" THEN expansion.queries ELSE <<original_query>>

Expand(nv, l) ==
    /\ pc = "expand"
    /\ UNCHANGED other_vars
    /\ num_query_variants' = nv
    /\ llm' = LlmKind(l)
    /\ LET expansion == expand_from_report(report, nv, l)
       IN IF expansion.status = "hang"
          THEN /\ pc' = "blocked"
               /\ UNCHANGED expanded_queries
          ELSE /\ pc' = "search"
               /\ expanded_queries' = ExpandStep(expansion)
    /\ UNCHANGED <<bm25_results, vector_results>>
    /\ UNCHANGED <<agent, report, k_per_query, top_k_after_rrf,
                   final_top_k, original_query, all_query_results, total_bm25_candidates,
                   total_vector_candidates, rrf_results, rrf_top_k, reranked_results,
                   final_sops, retrieval_summary, metrics, outcome, searches, judge>>

\* what search_normalized can do for the agent: nothing without a retriever
Bm25Outcomes(k) ==
    IF agent.bm25_retriever
    THEN { [kind |-> "raise", results |-> << >>] }
         \cup { [kind |-> "ok", results |-> res] : res \in search_normalized(k) }
    ELSE { [kind |-> "none", results |-> << >>] }

\* sum(1 for ... if src in tags)
CountSource(query_results, tags) ==
    Cardinality({i \in 1..Len(query_results) : query_results[i].source \in tags})

\* Step 2, lines 310-324: one iteration of the loop over expanded_queries.
\* retrieve() has no handler around the call, so an exception leaving
\* _hybrid_search_single_query would leave retrieve().
Search(k, bm25, backend) ==
    /\ pc = "search"
    /\ UNCHANGED other_vars
    /\ Len(all_query_results) < Len(expanded_queries)
    /\ all_query_results # << >> => k = k_per_query
    /\ k_per_query' = k
    /\ LET query == expanded_queries[Len(all_query_results) + 1]
           hs == hybrid_search_single_query(query, k, bm25, backend)
           query_results == hs.results
           vec_status == search_with_scores(query, k, backend).status
       IN IF hs.status = "raise"
          THEN /\ outcome' = "raised"
               /\ pc' = "done"
               /\ UNCHANGED <<bm25_results, vector_results, all_query_results,
                              total_bm25_candidates, total_vector_candidates, searches>>
          ELSE IF hs.status = "hang"
          THEN /\ pc' = "blocked"
               /\ UNCHANGED <<bm25_results, vector_results, all_query_results,
                              total_bm25_candidates, total_vector_candidates, searches,
                              outcome>>
          ELSE /\ bm25_results' = hs.bm25_results
               /\ vector_results' = hs.vector_results
               /\ all_query_results' = Append(all_query_results, query_results)
               /\ total_bm25_candidates' =
                      total_bm25_candidates + CountSource(query_results, {"bm25", "both"})
               /\ total_vector_candidates' =
                      total_vector_candidates + CountSource(query_results, {"vector", "both"})
               /\ searches' =
                      [bm25_failed |-> searches.bm25_failed \/ bm25.kind = "raise",
                       vector_failed |-> searches.vector_failed \/ vec_status = "raise",
                       vector_ok |-> searches.vector_ok \/ vec_status = "ok"]
               /\ UNCHANGED <<pc, outcome>>
    /\ UNCHANGED <<agent, report, num_query_variants, top_k_after_rrf,
                   final_top_k, original_query, expanded_queries, rrf_results, rrf_top_k,
                   reranked_results, final_sops, retrieval_summary, metrics, llm, judge>>

\* variant of Fuse that does not wait for the loop over expanded_queries to end
Fuse_before_all_searched(trrf) ==
    /\ pc = "search"
    /\ UNCHANGED other_vars
    /\ top_k_after_rrf' = trrf
    /\ rrf_results' = reciprocal_rank_fusion(all_query_results, RrfK)
    /\ rrf_top_k' = Take(rrf_results', trrf)
    /\ all_query_results' = << >>
    /\ bm25_results' = << >>
    /\ vector_results' = << >>
    /\ pc' = "rerank"
    /\ UNCHANGED <<agent, report, num_query_variants, k_per_query,
                   final_top_k, original_query, expanded_queries,
                   total_bm25_candidates, total_vector_candidates, reranked_results,
                   final_sops, retrieval_summary, metrics, outcome, llm, searches, judge>>

\* Step 3, lines 331-337.  The per-query rankings and the locals of the hybrid
\* searches are not read after the fusion; the variables hold them until then.
Fuse(trrf) ==
    /\ pc = "search"
    /\ UNCHANGED other_vars
    /\ Len(all_query_results) = Len(expanded_queries)
    /\ top_k_after_rrf' = trrf
    /\ rrf_results' = reciprocal_rank_fusion(all_query_results, RrfK)
    /\ rrf_top_k' = Take(rrf_results', trrf)
    /\ all_query_results' = << >>
    /\ bm25_results' = << >>
    /\ vector_results' = << >>
    /\ pc' = "rerank"
    /\ UNCHANGED <<agent, report, num_query_variants, k_per_query,
                   final_top_k, original_query, expanded_queries,
                   total_bm25_candidates, total_vector_candidates, reranked_results,
                   final_sops, retrieval_summary, metrics, outcome, llm, searches, judge>>

\* self.reranker.rerank(...); status "raise" is an exception leaving it,
\* status "hang" a call that does not return: the SemanticReranker waiting
\* for the judge
RerankerCall(query, candidates, top_k, j) ==
    CASE agent.reranker = "semantic" /\ j.kind = "hang" ->
            [status |-> "hang", results |-> << >>]
      [] agent.reranker = "semantic" /\ j.kind # "hang" ->
            [status |-> "ok", results |-> SemanticRerank(query, candidates, top_k, j)]
      [] agent.reranker = "simple" ->
            [status |-> "ok", results |-> SimpleRerank(query, candidates, top_k)]
      [] OTHER -> [status |-> "raise", results |-> << >>]

\* Step 4, lines 342-352: an exception of the reranker leaves rrf_top_k[:final_top_k]
RerankStep(rr, top_k) ==
    IF rr.status = "ok" THEN rr.results
    ELSE [i \in 1..Min(top_k, Len(rrf_top_k)) |->
             [sop |-> rrf_top_k[i].sop, score_num |-> rrf_top_k[i].score, score_den |-> RRFDen]]

\* HybridRagAgent._extract_full_sops
extract_full_sops(snippets) == [i \in 1..Len(snippets) |-> snippets[i].sop]

\* variant of generate_summary without the branch for an empty final_sops
generate_summary_without_empty_case(r, sops, num_queries, num_candidates_after_rrf) ==
    [text |-> "Retrieved", count |-> Len(sops),
     top_title |-> IF sops = << >> THEN << >> ELSE TitleOf(sops[1]),
     num_queries |-> num_queries, num_candidates |-> num_candidates_after_rrf,
     affected_module |-> r.affected_module, error_code |-> r.error_code]

\* HybridRagAgent._generate_summary
generate_summary(r, sops, num_queries, num_candidates_after_rrf) ==
    IF sops = << >>
    THEN [text |-> "No relevant SOPs found", count |-> 0, top_title |-> << >>,
          num_queries |-> 0, num_candidates |-> 0,
          affected_module |-> "", error_code |-> ""]
    ELSE [text |-> "Retrieved", count |-> Len(sops), top_title |-> TitleOf(sops[1]),
          num_queries |-> num_queries, num_candidates |-> num_candidates_after_rrf,
          affected_module |-> r.affected_module, error_code |-> r.error_code]

\* judge answers that matter to the agent's reranker
JudgeChoices ==
    IF agent.reranker = "semantic" /\ rrf_top_k # << >> THEN JudgeOutcomes ELSE {NoOutcome}

\* Steps 4-8, lines 342-391: the call returns the EnrichedContext (report,
\* expanded_queries, final_sops, retrieval_summary, metrics).  rrf_results ends
\* with the call; the other locals are kept as the record of the call.
Rerank(ftk, j) ==
    /\ pc = "rerank"
    /\ UNCHANGED other_vars
    /\ final_top_k' = ftk
    /\ judge' = JudgeKind(j, Len(rrf_top_k))
    /\ LET rr == RerankerCall(original_query, extract_full_sops(rrf_top_k), ftk, j)
       IN IF rr.status = "hang"
          THEN /\ pc' = "blocked"
               /\ UNCHANGED <<reranked_results, final_sops, retrieval_summary, metrics,
                              outcome, rrf_results>>
          ELSE /\ reranked_results' = RerankStep(rr, ftk)
               /\ final_sops' = extract_full_sops(reranked_results')
               /\ retrieval_summary' =
                     generate_summary(report, final_sops', Len(expanded_queries), Len(rrf_top_k))
               /\ metrics' = [num_expanded_queries |-> Len(expanded_queries),
                              num_bm25_candidates |-> total_bm25_candidates,
                              num_vector_candidates |-> total_vector_candidates,
                              num_merged_candidates |-> Len(rrf_results),
                              num_after_rrf |-> Len(rrf_top_k),
                              num_final_results |-> Len(final_sops'),
                              bm25_weight |-> Bm25WeightTenths,
                              vector_weight |-> VectorWeightTenths,
                              rrf_k |-> RrfK]
               /\ outcome' = "returned"
               /\ rrf_results' = << >>
               /\ pc' = "done"
    /\ UNCHANGED <<agent, report, num_query_variants, k_per_query, top_k_after_rrf,
                   original_query, expanded_queries, bm25_results, vector_results,
                   all_query_results, total_bm25_candidates, total_vector_candidates,
                   rrf_top_k, llm, searches>>

\* the caller drops the result; the locals of the call are gone
Return ==
    /\ pc = "done"
    /\ UNCHANGED other_vars
    /\ pc' = "idle"
    /\ UNCHANGED agent
    /\ report' = NoReport
    /\ num_query_variants' = 0
    /\ k_per_query' = 0
    /\ top_k_after_rrf' = 0
    /\ final_top_k' = 0
    /\ original_query' = << >>
    /\ expanded_queries' = << >>
    /\ bm25_results' = << >>
    /\ vector_results' = << >>
    /\ all_query_results' = << >>
    /\ total_bm25_candidates' = 0
    /\ total_vector_candidates' = 0
    /\ rrf_results' = << >>
    /\ rrf_top_k' = << >>
    /\ reranked_results' = << >>
    /\ final_sops' = << >>
    /\ retrieval_summary' = << >>
    /\ metrics' = << >>
    /\ outcome' = "none"
    /\ llm' = "none"
    /\ searches' = NoSearches
    /\ judge' = "none"

Next ==
    \/ \E r \in Reports : Call(r)
    \/ \E nv \in 0..MaxVariants, l \in LlmOutcomes(report) : Expand(nv, l)
    \/ \E k \in 1..MaxK : \E bm25 \in Bm25Outcomes(k), backend \in BackendOutcomes :
          Search(k, bm25, backend)
    \/ \E trrf \in 0..MaxTopK : Fuse(trrf)
    \/ \E ftk \in 0..MaxTopK, j \in JudgeChoices : Rerank(ftk, j)
    \/ Return

Spec == Init /\ [][Next]_vars

\* the steps of a call in progress: the thread that runs retrieve() keeps
\* running, so a step that stays possible is taken
Progress ==
    \/ \E nv \in 0..MaxVariants, l \in LlmOutcomes(report) : Expand(nv, l)
    \/ \E k \in 1..MaxK : \E bm25 \in Bm25Outcomes(k), backend \in BackendOutcomes :
          Search(k, bm25, backend)
    \/ \E trrf \in 0..MaxTopK : Fuse(trrf)
    \/ \E ftk \in 0..MaxTopK, j \in JudgeChoices : Rerank(ftk, j)
    \/ Return

SpecLive == Init /\ [][Next]_vars /\ WF_vars(Progress)

(* ----------------------- functions called on their own ------------------ *)

\* documents of a knowledge base that is searched on its own
LexicalDocs == {"A", "B", "C"}

\* what BM25Retriever.search can return: at most MaxResults distinct
\* documents with their raw scores, by decreasing score
SearchResults ==
    { r \in SeqsUpTo([sop : LexicalDocs, score : 0..MaxRaw], MaxResults) :
         /\ \A i, j \in 1..Len(r) : i # j => r[i].sop # r[j].sop
         /\ \A i \in 1..Len(r) : i < Len(r) => r[i].score >= r[i + 1].score }

\* incident_context arguments of create_execution_plan: None, {} or a dict
\* with entries
IncidentContexts == {"None", "empty", "filled"}

\* vague_resolution_text arguments: empty, blank, or with text
ResolutionTexts == {"", " ", "restart the listener ", "purge the queue"}

\* str.strip() on the texts of the planner
Strip(text) ==
    CASE text = " "                     -> ""
      [] text = "restart the listener " -> "restart the listener"
      [] text = " check the logs"       -> "check the logs"
      [] OTHER                          -> text

\* elements of a JSON list: strings, or values of another type (a number, an
\* object)
PlanElements ==
    { [type |-> "str", text |-> t] : t \in {"", " ", " check the logs", "purge the queue"} }
    \cup { [type |-> "other", text |-> ""] }

\* outcomes of self.chain.invoke(chain_input): an exception, or a response
\* whose content holds no [...] block ("none"), a block json.loads rejects
\* ("malformed"), or a JSON list
PlannerOutcomes ==
    { [kind |-> "raise", json |-> "none", steps |-> << >>],
      [kind |-> "text", json |-> "none", steps |-> << >>],
      [kind |-> "text", json |-> "malformed", steps |-> << >>] }
    \cup { [kind |-> "text", json |-> "list", steps |-> st] :
               st \in SeqsUpTo(PlanElements, MaxSteps) }

\* variant of create_execution_plan that tests the text without strip()
create_execution_plan_without_strip(incident_context, vague_resolution_text, response) ==
    IF incident_context \in {"None", "empty"}
    THEN [status |-> "ValueError", invoked |-> FALSE, plan |-> << >>]
    ELSE IF vague_resolution_text = ""
    THEN [status |-> "ValueError", invoked |-> FALSE, plan |-> << >>]
    ELSE IF response.kind = "raise" \/ response.json # "list"
    THEN [status |-> "Exception", invoked |-> TRUE, plan |-> << >>]
    ELSE IF \E i \in 1..Len(response.steps) :
                response.steps[i].type # "str" \/ Strip(response.steps[i].text) = ""
    THEN [status |-> "Exception", invoked |-> TRUE, plan |-> << >>]
    ELSE [status |-> "ok", invoked |-> TRUE, plan |-> response.steps]

\* SOPPlanner.create_execution_plan; response is the outcome of the planning
\* model, status the exception class that leaves the method, or "ok"
create_execution_plan(incident_context, vague_resolution_text, response) ==
    IF incident_context \in {"None", "empty"}
    THEN [status |-> "ValueError", invoked |-> FALSE, plan |-> << >>]
    ELSE IF vague_resolution_text = "" \/ Strip(vague_resolution_text) = ""
    THEN [status |-> "ValueError", invoked |-> FALSE, plan |-> << >>]
    ELSE IF response.kind = "raise" \/ response.json # "list"
    THEN [status |-> "Exception", invoked |-> TRUE, plan |-> << >>]
    ELSE IF \E i \in 1..Len(response.steps) :
                response.steps[i].type # "str" \/ Strip(response.steps[i].text) = ""
    THEN [status |-> "Exception", invoked |-> TRUE, plan |-> << >>]
    ELSE [status |-> "ok", invoked |-> TRUE, plan |-> response.steps]

\* candidates arguments of a rerank called on its own: up to MaxTopK
\* distinct SOPs
CandidateLists ==
    { c \in SeqsUpTo(LexicalDocs, MaxTopK) :
         c # << >> /\ \A i, j \in 1..Len(c) : i # j => c[i] # c[j] }

\* lines the provider may answer to an expansion called on its own: a blank
\* line, a paraphrase in two spellings that differ by case only, the original
\* in lower case
DirectResponseLines(r) ==
    { << >>,
      <<"vessel", "name", "conflict">>,
      <<"Vessel", "name", "conflict">>,
      LowerStr(expander_original_query(r)) }

\* ranks at which a ranking given to the fusion on its own holds a titled
\* document: the first two and the last one of a ranking of MaxRankingLen
FusionRanks == {0, 1, MaxRankingLen - 1}

\* a per-query ranking with SOP A at rank a and SOP B at rank b (-1: not in
\* the ranking); every other place holds a document without Title, which
\* takes its rank and is skipped by the fusion (lines 248-250)
FusionRanking(a, b) ==
    [i \in 1..(Max(a, b) + 1) |->
        [sop |-> IF i - 1 = a THEN "A" ELSE IF i - 1 = b THEN "B" ELSE "U",
         hybrid_score |-> 0, source |-> "vector", bm25_score |-> 0, vector_score |-> 0]]

FusionRankings ==
    { FusionRanking(p[1], p[2]) :
        p \in { x \in (FusionRanks \cup {-1}) \X (FusionRanks \cup {-1}) :
                   x[1] = x[2] => x[1] = -1 } }

\* the calls made on their own, each with its arguments and the answers of
\* the services it calls
DirectCalls ==
    { [fn |-> "search_normalized", results |-> r] : r \in SearchResults }
    \cup { [fn |-> "create_execution_plan", incident_context |-> c,
            vague_resolution_text |-> t, response |-> o] :
              c \in IncidentContexts, t \in ResolutionTexts, o \in PlannerOutcomes }
    \cup { [fn |-> "rerank", query |-> <<"duplicate", "vessel", "name">>,
            candidates |-> c, response |-> j] :
              c \in CandidateLists, j \in {o \in JudgeOutcomes : o.kind # "hang"} }
    \cup UNION { { [fn |-> "expand_from_report", report |-> r, num_variants |-> nv,
                    response |-> [kind |-> "text", lines |-> l]] :
                      nv \in 1..MaxDirectVariants,
                      l \in SeqsUpTo(DirectResponseLines(r), MaxDirectLines) } :
                  r \in Reports }
    \cup UNION { UNION { { [fn |-> "search_top_k", k |-> k, scores |-> a,
                              top_k_indices |-> idx] : idx \in TopKIndices(a, k) } :
                            a \in RawScoreArrays } :
                  k \in 1..(MaxK + 1) }
    \cup { [fn |-> "reciprocal_rank_fusion", multi_query_results |-> m] :
              m \in SeqsUpTo(FusionRankings, MaxDirectVariants + 1) }

\* BM25Retriever.search_normalized, on the results of its self.search
SearchNormalized ==
    /\ direct_call.fn = "search_normalized"
    /\ direct_result = NoResult
    /\ direct_result' = [status |-> "ok", value |-> normalize_scores(direct_call.results)]
    /\ UNCHANGED <<direct_call, retrieve_vars>>
    /\ UNCHANGED <<collections, collection, rebuild_pc, cases, reads, execution_vars>>

\* BM25Retriever.search_normalized(query, k) over self.sops: scores is what
\* self.bm25.get_scores answers, top_k_indices the order np.argsort leaves
SearchTopK ==
    /\ direct_call.fn = "search_top_k"
    /\ direct_result = NoResult
    /\ direct_result' = [status |-> "ok",
                         value |-> normalize_scores(search(direct_call.scores,
                                                           direct_call.top_k_indices))]
    /\ UNCHANGED <<direct_call, retrieve_vars>>
    /\ UNCHANGED <<collections, collection, rebuild_pc, cases, reads, execution_vars>>

\* SOPPlanner.create_execution_plan
CreateExecutionPlan ==
    /\ direct_call.fn = "create_execution_plan"
    /\ direct_result = NoResult
    /\ direct_result' = create_execution_plan(direct_call.incident_context,
                                              direct_call.vague_resolution_text,
                                              direct_call.response)
    /\ UNCHANGED <<direct_call, retrieve_vars>>
    /\ UNCHANGED <<collections, collection, rebuild_pc, cases, reads, execution_vars>>

\* SemanticReranker.rerank(query, candidates), top_k left at None
RerankAll ==
    /\ direct_call.fn = "rerank"
    /\ direct_result = NoResult
    /\ direct_result' = [status |-> "ok",
                         value |-> SemanticRerank(direct_call.query, direct_call.candidates,
                                                  0, direct_call.response)]
    /\ UNCHANGED <<direct_call, retrieve_vars>>
    /\ UNCHANGED <<collections, collection, rebuild_pc, cases, reads, execution_vars>>

\* QueryExpander.expand_from_report(report, num_variants)
ExpandFromReport ==
    /\ direct_call.fn = "expand_from_report"
    /\ direct_result = NoResult
    /\ direct_result' = expand_from_report(direct_call.report, direct_call.num_variants,
                                           direct_call.response)
    /\ UNCHANGED <<direct_call, retrieve_vars>>
    /\ UNCHANGED <<collections, collection, rebuild_pc, cases, reads, execution_vars>>

\* HybridRagAgent._reciprocal_rank_fusion(multi_query_results, k=self.rrf_k)
ReciprocalRankFusion ==
    /\ direct_call.fn = "reciprocal_rank_fusion"
    /\ direct_result = NoResult
    /\ direct_result' = [status |-> "ok",
                         value |-> reciprocal_rank_fusion(direct_call.multi_query_results, RrfK)]
    /\ UNCHANGED <<direct_call, retrieve_vars>>
    /\ UNCHANGED <<collections, collection, rebuild_pc, cases, reads, execution_vars>>

InitDirect ==
    /\ pc = "direct"
    /\ agent = [reranker |-> "semantic", bm25_retriever |-> TRUE]
    /\ Locals
    /\ direct_call \in DirectCalls
    /\ direct_result = NoResult
    /\ HistoryIdle
    /\ ExecutionIdle

NextDirect ==
    \/ SearchNormalized
    \/ SearchTopK
    \/ CreateExecutionPlan
    \/ RerankAll
    \/ ExpandFromReport
    \/ ReciprocalRankFusion

SpecDirect == InitDirect /\ [][NextDirect]_vars

(* --------------------------- history case index ------------------------- *)

\* top_k values of search_similar_cases
ReadTopKs == {3, 5}

\* where rebuild_index stands when a read starts
Phase == CASE rebuild_pc = "idle" -> "before"
           [] rebuild_pc = "done" -> "after"
           [] OTHER               -> "during"

\* search_similar_cases evaluates self.collection
StartRead(r, top_k) ==
    /\ reads[r].pc = "idle"
    /\ reads' = [reads EXCEPT ![r] = [pc |-> "querying", ref |-> collection, top_k |-> top_k,
                                      started |-> Phase, result |-> NoResult]]
    /\ UNCHANGED <<collections, collection, rebuild_pc, cases>>
    /\ UNCHANGED <<retrieve_vars, direct_call, direct_result, execution_vars>>

\* ... and queries it: the top_k most similar cases of what the collection
\* holds now; a deleted collection makes the query raise, and
\* search_similar_cases re-raises
Query(r) ==
    /\ reads[r].pc = "querying"
    /\ reads' = [reads EXCEPT ![r].pc = "done",
                              ![r].result =
                                  IF collections[reads[r].ref] = "deleted"
                                  THEN [status |-> "raise", similar_cases |-> << >>]
                                  ELSE [status |-> "ok",
                                        similar_cases |-> Take(collections[reads[r].ref],
                                                               reads[r].top_k)]]
    /\ UNCHANGED <<collections, collection, rebuild_pc, cases>>
    /\ UNCHANGED <<retrieve_vars, direct_call, direct_result, execution_vars>>

\* rebuild_index: self.client.delete_collection(self.collection_name)
DeleteCollection ==
    /\ rebuild_pc = "idle"
    /\ collections' = [collections EXCEPT ![collection] = "deleted"]
    /\ rebuild_pc' = "deleted"
    /\ UNCHANGED <<collection, cases, reads>>
    /\ UNCHANGED <<retrieve_vars, direct_call, direct_result, execution_vars>>

\* rebuild_index: self.collection = self.client.create_collection(...)
CreateCollection ==
    /\ rebuild_pc = "deleted"
    /\ collections' = Append(collections, << >>)
    /\ collection' = Len(collections) + 1
    /\ rebuild_pc' = "created"
    /\ UNCHANGED <<cases, reads>>
    /\ UNCHANGED <<retrieve_vars, direct_call, direct_result, execution_vars>>

\* rebuild_index: cases = self.load_historical_cases(json_file_path), which
\* raises when the file cannot be read; rebuild_index re-raises
LoadHistoricalCases(readable) ==
    /\ rebuild_pc = "created"
    /\ cases' = IF readable THEN NewCases ELSE << >>
    /\ rebuild_pc' = IF readable THEN "loaded" ELSE "failed"
    /\ UNCHANGED <<collections, collection, reads>>
    /\ UNCHANGED <<retrieve_vars, direct_call, direct_result, execution_vars>>

\* rebuild_index: self.vectorize_cases(cases), one collection.add of all cases
VectorizeCases ==
    /\ rebuild_pc = "loaded"
    /\ collections' = [collections EXCEPT ![collection] = cases]
    /\ rebuild_pc' = "done"
    /\ UNCHANGED <<collection, cases, reads>>
    /\ UNCHANGED <<retrieve_vars, direct_call, direct_result, execution_vars>>

InitHistory ==
    /\ pc = "history"
    /\ agent = [reranker |-> "semantic", bm25_retriever |-> TRUE]
    /\ Locals
    /\ direct_call = NoCall
    /\ direct_result = NoResult
    /\ HistoryIdle
    /\ ExecutionIdle

NextHistory ==
    \/ \E r \in Readers, top_k \in ReadTopKs : StartRead(r, top_k)
    \/ \E r \in Readers : Query(r)
    \/ DeleteCollection
    \/ CreateCollection
    \/ \E readable \in BOOLEAN : LoadHistoricalCases(readable)
    \/ VectorizeCases

SpecHistory == InitHistory /\ [][NextHistory]_vars

(* -------------------------- SOP execution service ----------------------- *)

\* plan steps, by what SOPExecutorAgent.execute_step makes of them:
\*   "read"               "<description>: SELECT ...", run by the read tool
\*   "write"              "<description>: UPDATE ...", a statement that holds
\*                        neither '<' nor ':'
\*   "write_placeholder"  a write statement that still holds a placeholder
\*                        (:name or <name>, outside a WHERE clause) after
\*                        _extract_sql_from_step
\*   "descriptive"        no SQL statement: the step goes to the LLM agent
StepKinds == {"read", "write", "write_placeholder", "descriptive"}

Plans == SeqsUpTo(StepKinds, MaxPlanLen)

\* queries by their text: "plain" holds neither '<' nor ':', "placeholder"
\* holds an unresolved placeholder
QueryKinds == {"plain", "placeholder"}

\* tools.execute_sql_write_query.  Line 53 evaluates re.search as soon as the
\* query holds '<' or ':', and tools.py does not import re: the call raises
\* NameError.  written: db_interface.execute_write_query(query) was called.
execute_sql_write_query(query, approval_granted) ==
    IF query = "placeholder" THEN [status |-> "NameError", written |-> FALSE]
    ELSE IF ~approval_granted THEN [status |-> "needs_approval", written |-> FALSE]
    ELSE [status |-> "success", written |-> TRUE]

\* one call of the tool, as tool_log keeps it: n is the request that made it,
\* by is "agent" (execute_step) or "service" (resume_plan_execution)
ToolCall(n, by, query, approval_granted) ==
    LET t == execute_sql_write_query(query, approval_granted)
    IN [n |-> n, by |-> by, query |-> query, approval_granted |-> approval_granted,
        status |-> t.status, written |-> t.written]

\* the chat history holds the message resume_plan_execution adds for an approval
HasApproval(chat_history) ==
    \E i \in 1..Len(chat_history) : chat_history[i] = <<"human", "approval">>

\* what self.agent_executor.invoke can do with a step: answer with a text,
\* call the write tool without approval and report its output, raise, or --
\* as its prompt allows once "the chat history explicitly indicates you have
\* received approval" -- call the write tool with approval_granted=True
AgentOutcomes(chat_history) ==
    {"text", "needs_approval", "raise"}
    \cup (IF HasApproval(chat_history) THEN {"approved_write"} ELSE {})

\* lines 189-250 of execute_step: the LLM agent; an exception becomes the
\* output "Execution failed: ..."
agent_executor_invoke(o, n) ==
    CASE o = "needs_approval" ->
            [output |-> "needs_approval", tools |-> <<ToolCall(n, "agent", "plain", FALSE)>>]
      [] o = "approved_write" ->
            [output |-> "success", tools |-> <<ToolCall(n, "agent", "plain", TRUE)>>]
      [] OTHER -> [output |-> "text", tools |-> << >>]

\* SOPExecutorAgent.execute_step: an extracted statement is run directly, a
\* write with approval_granted False; an exception of the direct run leaves
\* the step to the LLM agent.  output is "needs_approval" or "success" for
\* the tool's JSON with that status, "text" for an output that is not JSON.
execute_step(plan_step, o, n) ==
    CASE plan_step = "read" -> [output |-> "text", tools |-> << >>]
      [] plan_step \in {"write", "write_placeholder"} ->
            LET result == ToolCall(n, "agent",
                                   IF plan_step = "write" THEN "plain" ELSE "placeholder", FALSE)
                by_llm == agent_executor_invoke(o, n)
            IN IF result.status = "NameError"
               THEN [output |-> by_llm.output, tools |-> <<result>> \o by_llm.tools]
               ELSE [output |-> result.status, tools |-> <<result>>]
      [] OTHER -> agent_executor_invoke(o, n)

\* f"exec_token_{hash(tuple(state.plan))}_{state.current_step_index}"
StateToken(plan, current_step_index) == <<plan, current_step_index>>

\* SOPExecutionService._run_next_step on the state st: the state it leaves,
\* the token it stores the state under (NoToken: none), the tool calls made
\* and the ExecutionStepResult.  The handler of line 307 needs an output
\* that is not a string, which execute_step never returns.
run_next_step(st, o, n) ==
    IF st.current_step_index >= Len(st.plan)
    THEN [state |-> st, token |-> NoToken, tools |-> << >>,
          result |-> [status |-> "completed", step |-> st.current_step_index - 1,
                      state_token |-> NoToken]]
    ELSE LET current_step_desc == st.plan[st.current_step_index + 1]
             agent_response == execute_step(current_step_desc, o, n)
             chat_history == st.chat_history_tuples
                                \o << <<"human", "step">>, <<"ai", agent_response.output>> >>
             paused == [st EXCEPT !.chat_history_tuples = chat_history]
             advanced == [st EXCEPT !.chat_history_tuples = chat_history,
                                    !.completed_steps =
                                        Append(@, [step |-> st.current_step_index,
                                                   step_description |-> current_step_desc]),
                                    !.current_step_index = @ + 1]
         IN IF agent_response.output = "needs_approval"
            THEN [state |-> paused,
                  token |-> StateToken(st.plan, st.current_step_index),
                  tools |-> agent_response.tools,
                  result |-> [status |-> "needs_approval", step |-> st.current_step_index,
                              state_token |-> StateToken(st.plan, st.current_step_index)]]
            ELSE IF advanced.current_step_index >= Len(advanced.plan)
            THEN [state |-> advanced, token |-> NoToken, tools |-> agent_response.tools,
                  result |-> [status |-> "completed", step |-> advanced.current_step_index - 1,
                              state_token |-> NoToken]]
            ELSE [state |-> advanced,
                  token |-> StateToken(advanced.plan, advanced.current_step_index),
                  tools |-> agent_response.tools,
                  result |-> [status |-> "in_progress", step |-> advanced.current_step_index - 1,
                              state_token |-> StateToken(advanced.plan,
                                                         advanced.current_step_index)]]

\* self.state_cache[state_token] = state
Put(cache, token, ref) ==
    IF token = NoToken THEN cache
    ELSE [t \in DOMAIN cache \cup {token} |-> IF t = token THEN ref ELSE cache[t]]

\* the answer to a token the cache does not hold (lines 119-126, 202-209)
Expired ==
    [token |-> NoToken, tools |-> << >>,
     result |-> [status |-> "failed", step |-> 0, state_token |-> NoToken]]

\* what every request leaves behind: r is the outcome of the handler, ref the
\* identity of the state it worked on (0: none)
Respond(fn, token, ref, r) ==
    /\ exec_call' = [fn |-> fn, state_token |-> token, n |-> exec_call.n + 1, ref |-> ref]
    /\ exec_result' = r.result
    /\ tool_log' = tool_log \o r.tools
    /\ state_cache' = Put(state_cache, r.token, ref)
    /\ approval_tokens' = IF r.result.status = "needs_approval"
                          THEN approval_tokens \cup {r.token} ELSE approval_tokens

\* POST /execute: start_plan_execution(plan, incident_context)
StartPlanExecution(plan) ==
    /\ pc = "execution"
    /\ exec_call.n < MaxRequests
    /\ Len(exec_states) < MaxExecutions
    /\ \E o \in AgentOutcomes(<< >>) :
          LET state == [plan |-> plan, current_step_index |-> 0,
                        chat_history_tuples |-> << >>, completed_steps |-> << >>]
              r == run_next_step(state, o, exec_call.n + 1)
          IN /\ exec_states' = Append(exec_states, r.state)
             /\ Respond("start_plan_execution", NoToken, Len(exec_states) + 1, r)
    /\ UNCHANGED resumed
    /\ UNCHANGED <<retrieve_vars, direct_call, direct_result>>
    /\ UNCHANGED <<collections, collection, rebuild_pc, cases, reads>>

\* continue_next_step(state_token)
ContinueNextStep(token) ==
    /\ pc = "execution"
    /\ exec_call.n < MaxRequests
    /\ IF token \notin DOMAIN state_cache
       THEN /\ Respond("continue_next_step", token, 0, Expired)
            /\ UNCHANGED exec_states
       ELSE LET ref == state_cache[token]
            IN \E o \in AgentOutcomes(exec_states[ref].chat_history_tuples) :
                  LET r == run_next_step(exec_states[ref], o, exec_call.n + 1)
                  IN /\ exec_states' = [exec_states EXCEPT ![ref] = r.state]
                     /\ Respond("continue_next_step", token, ref, r)
    /\ UNCHANGED resumed
    /\ UNCHANGED <<retrieve_vars, direct_call, direct_result>>
    /\ UNCHANGED <<collections, collection, rebuild_pc, cases, reads>>

\* resume_plan_execution(state_token, approved_query): the state stays in
\* the cache under state_token
ResumePlanExecution(token, approved_query) ==
    IF token \notin DOMAIN state_cache
    THEN /\ Respond("resume_plan_execution", token, 0, Expired)
         /\ UNCHANGED <<exec_states, resumed>>
    ELSE LET ref == state_cache[token]
             state == exec_states[ref]
             result == ToolCall(exec_call.n + 1, "service", approved_query, TRUE)
             approved == [state EXCEPT
                             !.chat_history_tuples =
                                 @ \o << <<"human", "approval">>, <<"ai", "executed">> >>,
                             !.completed_steps =
                                 Append(@, [step |-> state.current_step_index,
                                            step_description |->
                                                IF state.current_step_index < Len(state.plan)
                                                THEN state.plan[state.current_step_index + 1]
                                                ELSE "N/A"]),
                             !.current_step_index = @ + 1]
         IN /\ resumed' = resumed \cup {token}
            /\ IF result.status = "NameError"
               THEN /\ UNCHANGED exec_states
                    /\ Respond("resume_plan_execution", token, ref,
                               [token |-> NoToken, tools |-> <<result>>,
                                result |-> [status |-> "failed",
                                            step |-> state.current_step_index,
                                            state_token |-> NoToken]])
               ELSE \E o \in AgentOutcomes(approved.chat_history_tuples) :
                       LET r == run_next_step(approved, o, exec_call.n + 1)
                       IN /\ exec_states' = [exec_states EXCEPT ![ref] = r.state]
                          /\ Respond("resume_plan_execution", token, ref,
                                     [r EXCEPT !.tools = <<result>> \o @])

\* POST /approve: a refusal answers success=False and calls nothing
ApproveExecution(token, approved, approved_query) ==
    /\ pc = "execution"
    /\ exec_call.n < MaxRequests
    /\ IF approved
       THEN ResumePlanExecution(token, approved_query)
       ELSE /\ exec_call' = [fn |-> "approve_execution", state_token |-> token,
                             n |-> exec_call.n + 1, ref |-> 0]
            /\ exec_result' = [status |-> "rejected", step |-> 0, state_token |-> NoToken]
            /\ UNCHANGED <<exec_states, state_cache, tool_log, approval_tokens, resumed>>
    /\ UNCHANGED <<retrieve_vars, direct_call, direct_result>>
    /\ UNCHANGED <<collections, collection, rebuild_pc, cases, reads>>

\* tokens a client can send: the ones in the cache and one never issued
UnknownToken == StateToken(<< >>, 0)

RequestTokens == DOMAIN state_cache \cup {UnknownToken}

InitExecution ==
    /\ pc = "execution"
    /\ agent = [reranker |-> "semantic", bm25_retriever |-> TRUE]
    /\ Locals
    /\ direct_call = NoCall
    /\ direct_result = NoResult
    /\ HistoryIdle
    /\ ExecutionIdle

NextExecution ==
    \/ \E plan \in Plans : StartPlanExecution(plan)
    \/ \E token \in RequestTokens : ContinueNextStep(token)
    \/ \E token \in RequestTokens, approved \in BOOLEAN, approved_query \in QueryKinds :
          ApproveExecution(token, approved, approved_query)

SpecExecution == InitExecution /\ [][NextExecution]_vars

(* ------------------------------- properties ----------------------------- *)

\* a retrieve() call has returned its EnrichedContext
Returned == pc = "done" /\ outcome = "returned"

\* the call is past Step 1
Expanded == pc \in {"search", "rerank", "done"} /\ outcome # "raised"

\* the candidates handed to the reranker, in fusion order
CandidateSops == extract_full_sops(rrf_top_k)

\* the primary rerank path of a SemanticReranker failed
JudgeFailed == agent.reranker = "semantic" /\ judge \in {"raise", "empty"}

\* the score the index reported last for the identity sop_id, 0 if it did not
\* report that identity
ReportedScore(results, sop_id) ==
    LET hits == {i \in 1..Len(results) : TitleOf(results[i].sop) = sop_id}
    IN IF hits = {} THEN 0
       ELSE results[CHOOSE i \in hits : \A j \in hits : j <= i].score

\* C1: the documents returned by retrieve() contain no two documents with
\* the same identity (Title).
C1_NoDuplicateDocuments ==
    Returned =>
        \A i, j \in 1..Len(final_sops) :
            i # j => TitleOf(final_sops[i]) # TitleOf(final_sops[j])

\* C2: for every final_top_k >= 0, final_top_k = 0 included, retrieve()
\* returns at most final_top_k documents.
C2_AtMostFinalTopK == Returned => Len(final_sops) <= final_top_k

\* C3: retrieve() never raises because of a failing backend: whatever
\* fails among query expansion, lexical search, vector search and rerank, the
\* call returns its result object, and a failed stage falls back on its own:
\* a failed expansion leaves [original_query], a raising reranker leaves the
\* first final_top_k fusion survivors.
C3_BackendFailuresNeverRaise ==
    /\ outcome # "raised"
    /\ pc = "done" =>
          /\ outcome = "returned"
          /\ metrics.num_final_results = Len(final_sops)
          /\ llm \in {"raise", "nontext"} => expanded_queries = <<original_query>>
          /\ agent.reranker = "raising" => final_sops = Take(CandidateSops, final_top_k)

\* every stage of one call failed and the call returned
C3_Witness ==
    /\ Returned
    /\ llm = "raise"
    /\ searches.bm25_failed
    /\ searches.vector_failed
    /\ agent.reranker = "raising"

\* C4: if the vector backend fails on every call, retrieve() does not raise,
\* every candidate of every per-query hybrid list has vector_score 0 and
\* hybrid score bm25_weight times its normalized lexical score, and only
\* documents of the lexical index are returned.
C4_VectorDownLexicalOnly ==
    (searches.vector_failed /\ ~searches.vector_ok) =>
        /\ outcome # "raised"
        /\ \A q \in 1..Len(all_query_results) :
              \A i \in 1..Len(all_query_results[q]) :
                 LET e == all_query_results[q][i]
                 IN /\ e.vector_score = 0
                    /\ e.hybrid_score = Bm25WeightTenths * e.bm25_score
                    /\ e.sop \in Range(Sops)
                    /\ q = Len(all_query_results) =>
                          e.bm25_score = ReportedScore(bm25_results, TitleOf(e.sop))
        /\ Returned => \A i \in 1..Len(final_sops) : final_sops[i] \in Range(Sops)

\* two queries searched with the vector backend down, the lexical index
\* answering
C4_Witness ==
    /\ pc = "search"
    /\ searches.vector_failed /\ ~searches.vector_ok
    /\ Len(all_query_results) = 2
    /\ Len(all_query_results[1]) = 2
    /\ \E i \in 1..Len(all_query_results[2]) :
          all_query_results[2][i].hybrid_score = Bm25WeightTenths * Scale

Identities(ranking) == {TitleOf(ranking[i].sop) : i \in 1..Len(ranking)} \ {<< >>}

\* 1 / (k_rrf + r + 1) for the 0-based rank r of sop_id in the ranking, 0 if
\* the ranking does not contain it; in units of 1 / RRFDen
Contribution(ranking, sop_id) ==
    IF sop_id \in Identities(ranking)
    THEN LET pos == CHOOSE i \in 1..Len(ranking) : TitleOf(ranking[i].sop) = sop_id
         IN RRFDen \div (RrfK + (pos - 1) + 1)
    ELSE 0

\* fused is the reciprocal rank fusion of rankings
IsFusionOf(fused, rankings) ==
    LET ids == UNION {Identities(rankings[q]) : q \in 1..Len(rankings)}
    IN /\ \A sop_id \in ids :
             /\ Cardinality({i \in 1..Len(fused) : TitleOf(fused[i].sop) = sop_id}) = 1
             /\ \A i \in 1..Len(fused) :
                   TitleOf(fused[i].sop) = sop_id =>
                      /\ fused[i].score =
                            SumOver([q \in 1..Len(rankings) |-> Contribution(rankings[q], sop_id)],
                                    1..Len(rankings))
                      /\ (\A q \in 1..Len(rankings) :
                             rankings[q] # << >> /\ TitleOf(rankings[q][1].sop) = sop_id)
                         => fused[i].score * (RrfK + 1) = Len(rankings) * RRFDen
       /\ \A i \in 1..Len(fused) : TitleOf(fused[i].sop) \in ids

\* C6: the fusion score of a document is the sum over the rankings that
\* contain it of 1 / (k_rrf + r + 1), r its 0-based rank; every distinct
\* document of any ranking is in the output exactly once; a document at rank
\* 0 in all N rankings gets N / (k_rrf + 1).
C6_ReciprocalRankFusion ==
    [][(pc = "search" /\ pc' = "rerank") => IsFusionOf(rrf_results', all_query_results)]_vars

\* two rankings were fused, one document led both and another was in one only
C6_Witness ==
    /\ pc = "rerank"
    /\ Len(expanded_queries) = 2
    /\ Len(rrf_results) = 2
    /\ rrf_results[1].score * (RrfK + 1) = 2 * RRFDen
    /\ rrf_results[2].score * (RrfK + 2) = RRFDen

\* the latest per-query hybrid list
LatestHybrid == all_query_results[Len(all_query_results)]

\* what C7 says of the merged list apart from the presence of the documents:
\* one entry per identity, scored from the two signals, 0 for a missing one
MergedByIdentity ==
    /\ \A i, j \in 1..Len(LatestHybrid) :
          i # j => TitleOf(LatestHybrid[i].sop) # TitleOf(LatestHybrid[j].sop)
    /\ \A i \in 1..Len(LatestHybrid) :
          LET e == LatestHybrid[i]
          IN /\ e.bm25_score = ReportedScore(bm25_results, TitleOf(e.sop))
             /\ e.vector_score = ReportedScore(vector_results, TitleOf(e.sop))
             /\ e.hybrid_score = Bm25WeightTenths * ReportedScore(bm25_results, TitleOf(e.sop))
                                  + VectorWeightTenths * ReportedScore(vector_results, TitleOf(e.sop))
             /\ TitleOf(e.sop) \in Identities(bm25_results) \cup Identities(vector_results)

\* C7 as stated: the two result lists are merged by identity, the hybrid
\* score is bm25_weight x lexical + vector_weight x vector with 0 for a missing
\* signal, and every document returned by either index is in the merged list.
C7_EveryDocumentMerged ==
    (pc = "search" /\ all_query_results # << >>) =>
        /\ MergedByIdentity
        /\ \A r \in Range(bm25_results) \cup Range(vector_results) :
              \E i \in 1..Len(LatestHybrid) : TitleOf(LatestHybrid[i].sop) = TitleOf(r.sop)

\* C7 amended: as stated, for the documents that have a Title: every document
\* with a non-empty Title returned by either index is in the merged list
\* exactly once; a document without a Title is left out.
C7_EveryTitledDocumentMerged ==
    (pc = "search" /\ all_query_results # << >>) =>
        /\ MergedByIdentity
        /\ \A r \in Range(bm25_results) \cup Range(vector_results) :
              TitleOf(r.sop) # << >> <=>
                 \E i \in 1..Len(LatestHybrid) : TitleOf(LatestHybrid[i].sop) = TitleOf(r.sop)

\* one document came from both indexes, another from the lexical index only
C7_Witness ==
    /\ pc = "search"
    /\ all_query_results # << >>
    /\ Len(bm25_results) = 2
    /\ vector_results # << >>
    /\ Len(LatestHybrid) = 2
    /\ \E i \in 1..2 : LatestHybrid[i].source = "both"
    /\ \E i \in 1..2 : LatestHybrid[i].vector_score = 0 /\ LatestHybrid[i].bm25_score > 0

\* C8: whether expansion succeeds or fails, the query set is non-empty and
\* its element 0 is the original query, the same string that is handed to
\* the reranker.
C8_OriginalQueryFirst ==
    Expanded => expanded_queries # << >> /\ expanded_queries[1] = original_query

\* C9: when the text-generation call fails (raises, times out, or returns
\* unusable output), the query set is exactly [original], of length 1.
C9_FailedExpansionLeavesOriginal ==
    (Expanded /\ llm \in {"raise", "nontext", "blank"}) =>
        expanded_queries = <<original_query>>

\* C10: for num_variants = 0 query expansion returns exactly [original],
\* whatever the provider answers.
C10_ZeroVariantsOriginalOnly ==
    (Expanded /\ num_query_variants = 0 /\ llm \in {"text", "blank"}) =>
        expanded_queries = <<expander_original_query(report)>>

\* search_normalized has returned
Normalized == direct_call.fn = "search_normalized" /\ direct_result.status = "ok"

\* C11: for every non-empty result list, search_normalized returns only
\* scores in [0, 1] (0..Scale in units of 1 / Scale), one per raw result; if
\* all raw scores are equal, a single result included, every normalized
\* score is exactly 1.0.
C11_NormalizedScoresInUnitRange ==
    (Normalized /\ direct_call.results # << >>) =>
        LET raw == direct_call.results
            normalized == direct_result.value
        IN /\ Len(normalized) = Len(raw)
           /\ \A i \in 1..Len(raw) :
                 /\ normalized[i].sop = raw[i].sop
                 /\ 0 <= normalized[i].score
                 /\ normalized[i].score <= Scale
           /\ (\A i, j \in 1..Len(raw) : raw[i].score = raw[j].score)
                 => \A i \in 1..Len(raw) : normalized[i].score = Scale

\* three results with the same positive raw score were normalized
C11_Witness ==
    /\ Normalized
    /\ Len(direct_call.results) = 3
    /\ \A i \in 1..3 : direct_call.results[i].score = MaxRaw
    /\ \A i \in 1..3 : direct_result.value[i].score = Scale

\* C13: a read that overlaps an index rebuild observes the complete
\* pre-rebuild index or the complete post-rebuild index, never an empty,
\* missing or partly filled one; a read started before the rebuild reflects
\* the old corpus, a read started after it the new corpus.
C13_SnapshotIsolation ==
    \A r \in Readers :
        reads[r].pc = "done" =>
            /\ reads[r].result.status = "ok"
            /\ reads[r].result.similar_cases
                   \in {Take(OldCases, reads[r].top_k), Take(NewCases, reads[r].top_k)}
            /\ reads[r].started = "before" =>
                   reads[r].result.similar_cases = Take(OldCases, reads[r].top_k)
            /\ reads[r].started = "after" =>
                   reads[r].result.similar_cases = Take(NewCases, reads[r].top_k)

\* C14: if the corpus fails to load at startup, construction of the engine
\* fails: no engine without its lexical corpus ever serves a retrieve() call.
C14_NoServiceWithoutCorpus == Returned => agent.bm25_retriever

\* C15: every retrieve() call eventually returns, also when an external call
\* (vector search, query-expansion call, rerank call) never responds.
C15_EveryCallReturns == (pc = "expand") ~> (pc = "done")

\* C16: when every stage returns no candidates for every query, retrieve()
\* returns normally with an empty document list, num_final_results = 0 and a
\* summary stating that no relevant SOPs were found.
C16_EmptyResultIsNormal ==
    (pc = "done" /\ total_bm25_candidates = 0 /\ total_vector_candidates = 0) =>
        /\ outcome = "returned"
        /\ final_sops = << >>
        /\ reranked_results = << >>
        /\ metrics.num_final_results = 0
        /\ metrics.num_merged_candidates = 0
        /\ retrieval_summary.text = "No relevant SOPs found"

\* two queries were searched, the vector backend answered each time and no
\* list got a candidate; the call returned
C16_Witness ==
    /\ Returned
    /\ Len(expanded_queries) = 2
    /\ searches.vector_ok /\ ~searches.vector_failed
    /\ total_bm25_candidates = 0 /\ total_vector_candidates = 0
    /\ final_sops = << >>

\* create_execution_plan has returned or raised
Planned == direct_call.fn = "create_execution_plan" /\ direct_result.status # "none"

\* C17: create_execution_plan raises ValueError, without invoking the
\* language model, whenever the incident context is empty or None or the
\* resolution text is empty or whitespace-only; a plan is returned only if it
\* is a list whose every element is a non-empty string.
C17_PlannerRejectsEmptyInput ==
    Planned =>
        /\ (\/ direct_call.incident_context \in {"None", "empty"}
            \/ Strip(direct_call.vague_resolution_text) = "")
              => direct_result.status = "ValueError" /\ ~direct_result.invoked
        /\ direct_result.status = "ok" =>
              /\ direct_call.response.json = "list"
              /\ direct_result.plan = direct_call.response.steps
              /\ \A i \in 1..Len(direct_result.plan) :
                    direct_result.plan[i].type = "str" /\ direct_result.plan[i].text # ""

\* a filled context with a whitespace-only text was rejected, the planning
\* model ready to answer with a valid plan
C17_Witness ==
    /\ Planned
    /\ direct_call.incident_context = "filled"
    /\ direct_call.vague_resolution_text = " "
    /\ direct_call.response.json = "list"
    /\ Len(direct_call.response.steps) = 2
    /\ \A i \in 1..2 : direct_call.response.steps[i].text = "purge the queue"
    /\ direct_result.status = "ValueError"
    /\ ~direct_result.invoked

\* rerank has returned the whole ordering for an answer of the judge
Judged ==
    /\ direct_call.fn = "rerank"
    /\ direct_result.status = "ok"
    /\ direct_call.response.kind = "text"

RECURSIVE FirstMentions(_, _)
\* the in-range indices of an answer, each at its first mention only
FirstMentions(fields, n) ==
    IF fields = << >> THEN << >>
    ELSE LET rest == FirstMentions(SubSeq(fields, 1, Len(fields) - 1), n)
             last == fields[Len(fields)]
         IN IF 0 <= last /\ last < n /\ last \notin Range(rest)
            THEN Append(rest, last) ELSE rest

\* C18: for every response of the judge over n candidates the reranked
\* ordering before truncation is a permutation of the n candidates:
\* out-of-range indices are discarded, each candidate occurs exactly once
\* (a repeated index is not repeated in the output), and the candidates the
\* judge did not mention follow the mentioned ones in their original order.
C18_RerankIsPermutation ==
    Judged =>
        LET candidates == direct_call.candidates
            n == Len(candidates)
            ordering == extract_full_sops(direct_result.value)
            mentioned == FirstMentions(direct_call.response.fields, n)
            unmentioned == MissingIndices(0, n, mentioned)
            indices == mentioned \o unmentioned
        IN /\ Len(ordering) = n
           /\ \A c \in Range(candidates) :
                 Cardinality({i \in 1..Len(ordering) : ordering[i] = c}) = 1
           /\ ordering = [r \in 1..n |-> candidates[indices[r] + 1]]

\* place of a document id (Title) in the ascending order of the ids, as
\* Python compares strings: "Vessel ..." comes before "container ..."
IdRank(sop_id) ==
    CASE sop_id = <<"Vessel", "duplicate", "name", "error">> -> 1
      [] sop_id = <<"container", "gate", "timeout">>          -> 2
      [] OTHER                                                 -> 0

\* C19: the fused list is sorted by non-increasing fusion score, and two
\* documents with equal fusion score appear in ascending order of document
\* id, whatever the order in which the per-query rankings first mention them.
C19_FusedSortedTiesById ==
    pc = "rerank" =>
        \A i, j \in 1..Len(rrf_results) :
            i < j =>
                \/ rrf_results[i].score > rrf_results[j].score
                \/ /\ rrf_results[i].score = rrf_results[j].score
                   /\ IdRank(TitleOf(rrf_results[i].sop)) < IdRank(TitleOf(rrf_results[j].sop))

\* C20: each per-query hybrid list is sorted by non-increasing hybrid score,
\* and two documents with equal hybrid score appear in ascending order of
\* document id, whatever the order in which the two indexes returned them.
C20_HybridSortedTiesById ==
    (pc = "search" /\ all_query_results # << >>) =>
        \A i, j \in 1..Len(LatestHybrid) :
            i < j =>
                \/ LatestHybrid[i].hybrid_score > LatestHybrid[j].hybrid_score
                \/ /\ LatestHybrid[i].hybrid_score = LatestHybrid[j].hybrid_score
                   /\ IdRank(TitleOf(LatestHybrid[i].sop)) < IdRank(TitleOf(LatestHybrid[j].sop))

\* the tag that names the indexes which returned the identity sop_id
Provenance(sop_id) ==
    IF sop_id \in Identities(bm25_results) /\ sop_id \in Identities(vector_results) THEN "both"
    ELSE IF sop_id \in Identities(bm25_results) THEN "bm25"
    ELSE "vector"

\* C21: the source tag of a hybrid candidate records which indexes returned
\* it: "both" exactly when the lexical and the vector index both returned
\* the document for that query, the lexical tag exactly when only the lexical
\* index did, the vector tag exactly when only the vector index did; a
\* document returned with a score of exactly 0 is still tagged with its index.
C21_SourceTagIsProvenance ==
    (pc = "search" /\ all_query_results # << >>) =>
        \A i \in 1..Len(LatestHybrid) :
            LatestHybrid[i].source = Provenance(TitleOf(LatestHybrid[i].sop))

\* expand_from_report has returned its queries
ExpandedDirectly == direct_call.fn = "expand_from_report" /\ direct_result.status = "ok"

RECURSIVE IsSubsequence(_, _)
\* the elements of sub occur in s, in the same order
IsSubsequence(sub, s) ==
    IF sub = << >> THEN TRUE
    ELSE IF s = << >> THEN FALSE
    ELSE IF Head(sub) = Head(s) THEN IsSubsequence(Tail(sub), Tail(s))
    ELSE IsSubsequence(sub, Tail(s))

\* C22: for numVariants >= 1 the generated variants returned by query
\* expansion are pairwise distinct under case-insensitive comparison, none
\* equals the original query case-insensitively, none is empty, they keep the
\* order of the provider's response lines, and there are at most numVariants.
C22_VariantsDistinctIgnoringCase ==
    (ExpandedDirectly /\ direct_call.num_variants >= 1) =>
        LET original == direct_result.queries[1]
            variants == Tail(direct_result.queries)
        IN /\ \A i, j \in 1..Len(variants) :
                 i # j => LowerStr(variants[i]) # LowerStr(variants[j])
           /\ \A i \in 1..Len(variants) :
                 /\ LowerStr(variants[i]) # LowerStr(original)
                 /\ variants[i] # << >>
           /\ IsSubsequence(variants, direct_call.response.lines)
           /\ Len(variants) <= direct_call.num_variants


\* C23: on both rerank paths -- the relevance judge's ordering and the
\* lexical-overlap ordering -- the score attached to the document at 0-based
\* position p of the final ordering is exactly 1 / (p + 1), so the top
\* document has score 1 and the scores decrease strictly
C23_RerankScoreIsReciprocalRank ==
    (Returned /\ agent.reranker \in {"semantic", "simple"}) =>
        \A i \in 1..Len(reranked_results) :
            reranked_results[i].score_num * i = reranked_results[i].score_den


FusedDirectly == direct_call.fn = "reciprocal_rank_fusion" /\ direct_result.status = "ok"

\* number of the given rankings that hold the document sop_id
RankingsWith(sop_id) ==
    Cardinality({q \in 1..Len(direct_call.multi_query_results) :
                    sop_id \in Identities(direct_call.multi_query_results[q])})

\* C24: with k_rrf = 60 and per-query rankings of at most 20 entries, a
\* document that is in at least two rankings has a strictly higher fusion
\* score than a document that is in exactly one, whatever their ranks, and
\* precedes it in the fused list
C24_TwoRankingsBeatOne ==
    (/\ FusedDirectly
     /\ RrfK = 60
     /\ \A q \in 1..Len(direct_call.multi_query_results) :
           Len(direct_call.multi_query_results[q]) <= MaxRankingLen) =>
        LET fused == direct_result.value
        IN \A i, j \in 1..Len(fused) :
              (/\ RankingsWith(TitleOf(fused[i].sop)) >= 2
               /\ RankingsWith(TitleOf(fused[j].sop)) = 1)
              => fused[i].score > fused[j].score /\ i < j

\* two rankings were fused: one document is last of 20 in both, the other
\* leads one of them, and the document of both rankings comes first
C24_Witness ==
    /\ FusedDirectly
    /\ Len(direct_call.multi_query_results) = 2
    /\ Len(direct_result.value) = 2
    /\ RankingsWith(TitleOf(direct_result.value[1].sop)) = 2
    /\ RankingsWith(TitleOf(direct_result.value[2].sop)) = 1
    /\ direct_result.value[1].score * (RrfK + MaxRankingLen) = 2 * RRFDen
    /\ direct_result.value[2].score * (RrfK + 1) = RRFDen


\* the step appends the ranking of the next expanded query, in query order
AppendsNextRanking ==
    \E k \in 1..MaxK : \E bm25 \in Bm25Outcomes(k), backend \in BackendOutcomes :
        LET query == expanded_queries[Len(all_query_results) + 1]
        IN all_query_results' =
              Append(all_query_results, hybrid_search_single_query(query, k, bm25, backend).results)

\* C25: fusion is a barrier: within one retrieve() call the reciprocal rank
\* fusion starts only after the hybrid search of every expanded query has
\* finished, with results or with its fallback to an empty list, and its
\* input holds exactly one ranking per expanded query, in query order
C25_FusionIsBarrier ==
    [][/\ (pc = "search" /\ pc' = "search") =>
             /\ Len(all_query_results) < Len(expanded_queries)
             /\ AppendsNextRanking
       /\ (pc' = "rerank" \/ rrf_results' # rrf_results) =>
             \/ /\ pc = "search"
                /\ Len(all_query_results) = Len(expanded_queries)
                /\ rrf_results' = reciprocal_rank_fusion(all_query_results, RrfK)
             \/ pc = "rerank"]_vars

\* two queries were searched, the vector index failed for one of them and
\* answered the other, and the fusion ran on the two rankings
C25_Witness ==
    /\ pc = "rerank"
    /\ Len(expanded_queries) = 2
    /\ searches.vector_failed
    /\ searches.vector_ok
    /\ rrf_results # << >>


\* number of queries handed to db_interface.execute_write_query so far
Writes(log) == Cardinality({i \in 1..Len(log) : log[i].written})

\* C26: one approval executes one write: once resume_plan_execution has been
\* called with a token issued for a needs_approval pause, a further
\* resume_plan_execution call with the same token executes no additional
\* database write and does not advance the plan again
C26_OneApprovalOneWrite ==
    [][(/\ exec_call'.n # exec_call.n
        /\ exec_call'.fn = "resume_plan_execution"
        /\ exec_call'.state_token \in approval_tokens \cap resumed) =>
            /\ Writes(tool_log') = Writes(tool_log)
            /\ \A e \in 1..Len(exec_states) :
                  exec_states'[e].current_step_index = exec_states[e].current_step_index]_vars

\* C27: execute_sql_write_query hands a query to the database only when
\* approval_granted is true and the query holds no unresolved placeholder;
\* with approval_granted false it returns status needs_approval and writes
\* nothing; so an agent step that proposes a write pauses the plan with
\* status needs_approval before any write happens
C27_WriteOnlyWithApproval ==
    \A i \in 1..Len(tool_log) :
        LET e == tool_log[i]
        IN /\ e.written => e.approval_granted /\ e.query # "placeholder"
           /\ ~e.approval_granted => e.status = "needs_approval" /\ ~e.written
           /\ e.by = "agent" =>
                 /\ ~e.written
                 /\ e.n = exec_call.n => exec_result.status = "needs_approval"

\* C28: in every reachable execution state, after any sequence of start,
\* continue and resume calls, 0 <= current_step_index <= len(plan) and
\* len(completed_steps) = current_step_index; status completed is returned
\* only when current_step_index = len(plan)
C28_ExecutionStateInvariant ==
    /\ \A e \in 1..Len(exec_states) :
          /\ 0 <= exec_states[e].current_step_index
          /\ exec_states[e].current_step_index <= Len(exec_states[e].plan)
          /\ Len(exec_states[e].completed_steps) = exec_states[e].current_step_index
    /\ exec_result.status = "completed" =>
          exec_states[exec_call.ref].current_step_index = Len(exec_states[exec_call.ref].plan)


\* C29: for non-negative k_per_query, top_k_after_rrf and final_top_k the
\* metrics of a returned call satisfy num_final_results = number of returned
\* documents <= num_after_rrf <= num_merged_candidates, num_after_rrf <=
\* top_k_after_rrf and num_expanded_queries = len(expanded_queries), for
\* every judge response and every failure pattern
C29_MetricsAreConsistent ==
    Returned =>
        /\ metrics.num_final_results = Len(final_sops)
        /\ metrics.num_final_results <= metrics.num_after_rrf
        /\ metrics.num_after_rrf <= metrics.num_merged_candidates
        /\ metrics.num_after_rrf <= top_k_after_rrf
        /\ metrics.num_expanded_queries = Len(expanded_queries)


SearchedTopK == direct_call.fn = "search_top_k" /\ direct_result.status = "ok"

\* C30: for a non-empty corpus and k >= 1, search_normalized returns exactly
\* min(k, corpus size) documents whether or not a document shares a token
\* with the query, and the largest normalized score is exactly 1.0; when no
\* document matches (all raw scores 0), every returned document gets 1.0
C30_TopKAlwaysFilled ==
    (SearchedTopK /\ Len(Sops) >= 1 /\ direct_call.k >= 1) =>
        /\ Len(direct_result.value) = Min(direct_call.k, Len(Sops))
        /\ MaxScore(direct_result.value) = Scale
        /\ (\A d \in 1..Len(Sops) : direct_call.scores[d] = 0)
              => \A i \in 1..Len(direct_result.value) : direct_result.value[i].score = Scale

\* no SOP matched the query, k was above the corpus size, and the whole
\* corpus came back with score 1.0
C30_Witness ==
    /\ SearchedTopK
    /\ direct_call.k > Len(Sops)
    /\ \A d \in 1..Len(Sops) : direct_call.scores[d] = 0
    /\ Len(direct_result.value) = Len(Sops)
    /\ \A i \in 1..Len(Sops) : direct_result.value[i].score = Scale

====
